---- MODULE Spec2Model ----
(***************************************************************************)
(* A model of the VPack Builder of src/src/Builder.cpp: the append-only    *)
(* writer with its nesting stack, the per-depth member offsets, removeLast *)
(* and close() with its four paths (empty, compact, array, object with the *)
(* 3-way cuckoo hash table).                                               *)
(*                                                                         *)
(* Buffer offsets are 0-based as in the code: byte o of the buffer is      *)
(* start[o + 1].  Only the bytes below pos are kept in the state: the code *)
(* never reads a byte at or above pos before writing it.                   *)
(***************************************************************************)
EXTENDS Integers, Sequences, FiniteSets, TLC

VARIABLES
  start,       \* _start[0 .. _pos-1], the bytes written so far
  pos,         \* _pos, the append position
  stack,       \* _stack, the header offsets of the open compounds
  index,       \* _index[0 .. _stack.size()-1], member offsets per open frame
  keyWritten,  \* _keyWritten
  options,     \* the Options the builder was constructed with
  hsel,        \* which member of the hash family stands for XXH64
  last,        \* the last call that returned or had an effect, see Effect
  ghost,       \* history: per open compound, the values appended at its level
  back,        \* history: the calls so far that threw or were removeLast
  wIn,         \* input of the size-level close (specification SpecWidth)
  wOut,        \* result of the size-level close
  ck,          \* computeCuckooHash step by step: its locals and position
  rs           \* the capacity of the buffer along the reserves and writes

vars == <<start, pos, stack, index, keyWritten, options, hsel, last, ghost, back,
          wIn, wOut, ck, rs>>

----------------------------------------------------------------------------
(* Bounds of the model.                                                    *)

\* no value is added that would take pos beyond MaxPos
MaxPos == 19
\* no compound is given more than MaxIndex members
MaxIndex == 2
\* no value is added outside of a compound once pos has passed MaxTop
MaxTop == 1
\* a history has at most MaxBack calls that throw or are removeLast
MaxBack == 1
\* the size-level close is given up to MaxN members
MaxN == 3
\* and lengths up to MaxSlack below and above each threshold of the widths
MaxSlack == 16

----------------------------------------------------------------------------
(* Sequences and bytes.                                                    *)

Last(s) == s[Len(s)]
Front(s) == SubSeq(s, 1, Len(s) - 1)

\* the w little-endian bytes of x, as the loops "x & 0xff; x >>= 8" write them
RECURSIVE LE(_, _)
LE(x, w) == IF w = 0 THEN <<>> ELSE <<x % 256>> \o LE(x \div 256, w - 1)

\* the number held in the w little-endian bytes at offset off
RECURSIVE ReadLE(_, _, _)
ReadLE(buf, off, w) ==
  IF w = 0 THEN 0 ELSE buf[off + 1] + 256 * ReadLE(buf, off + 1, w - 1)

\* buf with bytes written at offsets off .. off+Len(bytes)-1; the buffer is
\* extended when the write ends beyond its end (reserved capacity)
PutBytes(buf, off, bytes) ==
  LET n == IF off + Len(bytes) > Len(buf) THEN off + Len(bytes) ELSE Len(buf)
  IN  [i \in 1..n |->
         IF i > off /\ i <= off + Len(bytes) THEN bytes[i - off]
         ELSE IF i <= Len(buf) THEN buf[i] ELSE 0]

\* memmove(_start + dst, _start + src, len)
MemMove(buf, dst, src, len) == PutBytes(buf, dst, SubSeq(buf, src + 1, src + len))

----------------------------------------------------------------------------
(* The builder as a value: the fields an operation reads and writes.  An   *)
(* operation returns the builder it leaves behind and the exception it     *)
(* threw ("none" when it returned normally).                               *)

Builder == [start |-> start, pos |-> pos, stack |-> stack, index |-> index,
            keyWritten |-> keyWritten]

\* the builder after construction
Fresh == [start |-> <<>>, pos |-> 0, stack |-> <<>>, index |-> <<>>,
          keyWritten |-> FALSE]

Ok(b) == [b |-> b, exc |-> "none"]
Throw(b, e) == [b |-> b, exc |-> e]

\* _start[_stack.back()], the head byte of the innermost open compound
TosHead(b) == b.start[Last(b.stack) + 1]

\* writing bytes at _pos and advancing _pos (after reserveSpace)
AppendBytes(b, bytes) ==
  [b EXCEPT !.start = PutBytes(SubSeq(b.start, 1, b.pos), b.pos, bytes),
            !.pos = b.pos + Len(bytes)]

\* appendLength(v, n)
AppendLength(b, v, n) == AppendBytes(b, LE(v, n))

\* the smallest number of bytes that hold v
RECURSIVE UIntWidth(_)
UIntWidth(v) == IF v < 256 THEN 1 ELSE 1 + UIntWidth(v \div 256)

\* appendUInt(v, base): head byte base + width, then the bytes of v
AppendUInt(b, v, base) ==
  AppendBytes(b, <<base + UIntWidth(v)>> \o LE(v, UIntWidth(v)))

\* checkKeyIsString(isString)
CheckKeyIsString(b, isString) ==
  IF b.stack # <<>> /\ TosHead(b) \in {11, 20}
  THEN IF ~b.keyWritten /\ ~isString
       THEN Throw(b, "BuilderKeyMustBeString")
       ELSE Ok([b EXCEPT !.keyWritten = ~b.keyWritten])
  ELSE Ok(b)

\* reportAdd(): record the offset of the member about to be written
ReportAdd(b) ==
  [b EXCEPT !.index[Len(b.stack)] = Append(@, b.pos - Last(b.stack))]

\* cleanupAdd(): forget the offset recorded by reportAdd
CleanupAdd(b) == [b EXCEPT !.index[Len(b.stack)] = Front(@)]

\* addCompoundValue(type): push a frame, write the head byte and the eight
\* bytes kept for the byte length and the number of subvalues
AddCompoundValue(b, type) ==
  LET b1 == [b EXCEPT !.stack = Append(@, b.pos), !.index = Append(@, <<>>)]
  IN  AppendBytes(b1, <<type, 0, 0, 0, 0, 0, 0, 0, 0>>)

----------------------------------------------------------------------------
(* Builder::set(Value const&).  A Value is a record: vt its ValueType, ct  *)
(* its CType, n its number, s its string bytes, u its unindexed hint.      *)

SetSmallInt(b, item) ==
  IF item.ct \notin {"Double", "Int64", "UInt64"}
  THEN Throw(b, "BuilderUnexpectedValue")
  ELSE IF item.n < -6 \/ item.n > 9
  THEN Throw(b, "NumberOutOfRange")
  ELSE IF item.n >= 0
  THEN Ok(AppendBytes(b, <<item.n + 48>>))
  ELSE Ok(AppendBytes(b, <<item.n + 64>>))

SetString(b, item) ==
  IF item.ct \notin {"String", "CharPtr"}
  THEN Throw(b, "BuilderUnexpectedValue")
  ELSE IF Len(item.s) <= 126
  THEN Ok(AppendBytes(b, <<64 + Len(item.s)>> \o item.s))
  ELSE Ok(AppendBytes(AppendLength(AppendBytes(b, <<191>>), Len(item.s), 8),
                      item.s))

SetBinary(b, item) ==
  IF item.ct \notin {"String", "CharPtr"}
  THEN Throw(b, "BuilderUnexpectedValue")
  ELSE Ok(AppendBytes(AppendUInt(b, Len(item.s), 191), item.s))

SetExternal(b, item) ==
  IF options.disallowExternals
  THEN Throw(b, "BuilderExternalsDisallowed")
  ELSE IF item.ct # "VoidPtr"
  THEN Throw(b, "BuilderUnexpectedValue")
  ELSE Ok(AppendBytes(b, <<29>> \o LE(item.n, 8)))

SetValue(b, item) ==
  LET c == CheckKeyIsString(b, item.vt = "String")
      b1 == c.b
  IN  IF c.exc # "none" THEN c
      ELSE CASE item.vt = "None" -> Throw(b1, "BuilderUnexpectedType")
             [] item.vt = "Null" -> Ok(AppendBytes(b1, <<24>>))
             [] item.vt = "Bool" ->
                  IF item.ct # "Bool" THEN Throw(b1, "BuilderUnexpectedValue")
                  ELSE Ok(AppendBytes(b1, <<IF item.n = 1 THEN 26 ELSE 25>>))
             [] item.vt = "External" -> SetExternal(b1, item)
             [] item.vt = "SmallInt" -> SetSmallInt(b1, item)
             [] item.vt = "String" -> SetString(b1, item)
             [] item.vt = "Array" ->
                  Ok(AddCompoundValue(b1, IF item.u THEN 19 ELSE 6))
             [] item.vt = "Object" ->
                  Ok(AddCompoundValue(b1, IF item.u THEN 20 ELSE 11))
             [] item.vt = "Binary" -> SetBinary(b1, item)
             [] item.vt = "Illegal" -> Ok(AppendBytes(b1, <<23>>))
             [] item.vt = "MinKey" -> Ok(AppendBytes(b1, <<30>>))
             [] item.vt = "MaxKey" -> Ok(AppendBytes(b1, <<31>>))
             [] item.vt = "BCD" -> Throw(b1, "NotImplemented")
             [] item.vt = "Custom" -> Throw(b1, "BuilderUnexpectedType")

\* Builder::set(Slice const&): item.s holds the bytes of the finished value
SetSlice(b, item) ==
  LET c == CheckKeyIsString(b, item.s[1] >= 64 /\ item.s[1] <= 191)
  IN  IF c.exc # "none" THEN c ELSE Ok(AppendBytes(c.b, item.s))

\* Builder::set(ValuePair const&): item.s holds the bytes at getStart()
SetPair(b, item) ==
  LET c == CheckKeyIsString(b, item.vt = "String")
      b1 == c.b
  IN  IF c.exc # "none" THEN c
      ELSE IF item.vt = "Binary"
      THEN Ok(AppendBytes(AppendUInt(b1, Len(item.s), 191), item.s))
      ELSE IF item.vt = "String"
      THEN IF Len(item.s) > 126
           THEN Ok(AppendBytes(AppendLength(AppendBytes(b1, <<191>>),
                                            Len(item.s), 8), item.s))
           ELSE Ok(AppendBytes(b1, <<64 + Len(item.s)>> \o item.s))
      ELSE IF item.vt = "Custom"
      THEN Ok(AppendBytes(b1, item.s))
      ELSE Throw(b1, "BuilderUnexpectedType")

\* set(T const&) for the three kinds of argument
SetAny(b, item) ==
  CASE item.kind = "Value" -> SetValue(b, item)
    [] item.kind = "Slice" -> SetSlice(b, item)
    [] item.kind = "Pair" -> SetPair(b, item)

\* the catch block of addInternal: r is what set returned or threw
Caught(r, haveReported) ==
  IF r.exc # "none" /\ haveReported
  THEN Throw(CleanupAdd(r.b), r.exc)
  ELSE r

\* addInternal<T>(sub)
AddInternal(b, item) ==
  LET haveReported == b.stack # <<>> /\ ~b.keyWritten
  IN  Caught(SetAny(IF haveReported THEN ReportAdd(b) ELSE b, item),
             haveReported)

StringValue(s) ==
  [kind |-> "Value", vt |-> "String", ct |-> "String", n |-> 0, s |-> s,
   u |-> FALSE]

\* addInternal<T>(attrName, sub) after set(Value(attrName)) returned or
\* threw k: set(sub)
KeySet(k, item) == IF k.exc # "none" THEN k ELSE SetAny(k.b, item)

\* addInternal<T>(attrName, sub)
AddInternalAttr(b, attrName, item) ==
  IF b.stack # <<>> /\ TosHead(b) \notin {11, 20}
  THEN Throw(b, "BuilderNeedOpenObject")
  ELSE IF b.stack # <<>> /\ b.keyWritten
  THEN Throw(b, "BuilderKeyAlreadyWritten")
  ELSE LET haveReported == b.stack # <<>>
       IN  Caught(KeySet(SetValue(IF haveReported THEN ReportAdd(b) ELSE b,
                                  StringValue(attrName)), item),
                  haveReported)

\* Builder::removeLast()
RemoveLast(b) ==
  IF b.stack = <<>>
  THEN Throw(b, "BuilderNeedOpenCompound")
  ELSE IF b.index[Len(b.stack)] = <<>>
  THEN Throw(b, "BuilderNeedSubvalue")
  ELSE Ok([b EXCEPT !.pos = Last(b.stack) + Last(b.index[Len(b.stack)]),
                    !.start = SubSeq(b.start, 1,
                                Last(b.stack) + Last(b.index[Len(b.stack)])),
                    !.index[Len(b.stack)] = Front(@)])

----------------------------------------------------------------------------
(* ValueLength quantities that pass 2^31: hi * 2^30 + lo with lo < 2^30.   *)
(* The width thresholds 0xff, 0xffff, 0xffffffff and the 2^56 limit of the *)
(* compact form are compared in this form.                                 *)

Base == 1024 * 1024 * 1024

Big(n) == [hi |-> n \div Base, lo |-> n % Base]
BigAdd(a, n) == [hi |-> a.hi + (a.lo + n) \div Base, lo |-> (a.lo + n) % Base]
\* a - n for n <= a
BigSub(a, n) ==
  IF a.lo >= n THEN [hi |-> a.hi, lo |-> a.lo - n]
  ELSE [hi |-> a.hi - 1, lo |-> a.lo + Base - n]
BigLeq(a, c) == a.hi < c.hi \/ (a.hi = c.hi /\ a.lo <= c.lo)
\* the value as a TLC integer, for values below 2^31
Small(a) == a.hi * Base + a.lo

Max8 == Big(255)                       \* 0xff
Max16 == Big(65535)                    \* 0xffff
Max32 == [hi |-> 3, lo |-> Base - 1]   \* 0xffffffff

\* the number the low w bytes of a hold ("x & 0xff; x >>= 8", w times)
BigTrunc(a, w) ==
  CASE w = 1 -> Big(a.lo % 256)
    [] w = 2 -> Big(a.lo % 65536)
    [] w = 4 -> [hi |-> a.hi % 4, lo |-> a.lo]
    [] w = 8 -> a

\* getVariableValueLength(value): the number of 7-bit groups of value
RECURSIVE VarLen(_)
VarLen(v) == IF v >= 128 THEN 1 + VarLen(v \div 128) ELSE 1

BigVarLen(a) ==
  IF a.hi = 0 /\ a.lo < 268435456 THEN VarLen(a.lo)
  ELSE 4 + VarLen(a.hi * 4 + a.lo \div 268435456)

\* storeVariableValueLength<false>: the bytes in the order of increasing
\* address; the reverse form writes the same bytes at decreasing addresses
RECURSIVE VarBytes(_)
VarBytes(v) ==
  IF v >= 128 THEN <<128 + (v % 128)>> \o VarBytes(v \div 128) ELSE <<v>>

Reverse(s) == [i \in 1..Len(s) |-> s[Len(s) + 1 - i]]

----------------------------------------------------------------------------
(* close(): the empty and the compact path.                                *)

PopFrame(b) == [b EXCEPT !.stack = Front(@), !.index = Front(@)]

\* the bytes at and above _pos are dropped from the state
Cut(b) == [b EXCEPT !.start = SubSeq(b.start, 1, b.pos)]

\* closeEmptyArrayOrObject without its _stack.pop_back()
CloseEmptyKeepsFrame(b, tos, isArray) ==
  Cut([b EXCEPT !.start = PutBytes(@, tos, <<IF isArray THEN 1 ELSE 10>>),
                !.pos = b.pos - 8])

\* Builder::closeEmptyArrayOrObject
CloseEmptyArrayOrObject(b, tos, isArray) ==
  LET b1 == [b EXCEPT !.start = PutBytes(@, tos, <<IF isArray THEN 1 ELSE 10>>),
                      !.pos = b.pos - 8]
  IN  PopFrame(Cut(b1))

\* lines 103-113 without the reconciliation of lines 110-113
CompactSizesNoRetry(len, n) ==
  LET nLen == VarLen(n)
      byteSize0 == BigAdd(BigSub(len, 8), nLen)
      bLen0 == BigVarLen(byteSize0)
  IN  [nLen |-> nLen, bLen |-> bLen0, byteSize |-> BigAdd(byteSize0, bLen0)]

\* the sizes closeCompactArrayOrObject computes from len = _pos - tos and
\* n = index.size(): nLen, bLen and byteSize after the one reconciliation
CompactSizes(len, n) ==
  LET nLen == VarLen(n)
      byteSize0 == BigAdd(BigSub(len, 8), nLen)
      bLen0 == BigVarLen(byteSize0)
      byteSize1 == BigAdd(byteSize0, bLen0)
  IN  IF BigVarLen(byteSize1) # bLen0
      THEN [nLen |-> nLen, bLen |-> bLen0 + 1, byteSize |-> BigAdd(byteSize1, 1)]
      ELSE [nLen |-> nLen, bLen |-> bLen0, byteSize |-> byteSize1]

\* Builder::closeCompactArrayOrObject: [done, b]
CloseCompactArrayOrObject(b, tos, isArray, idx) ==
  LET z == CompactSizes(Big(b.pos - tos), Len(idx))
      byteSize == Small(z.byteSize)
      moved == IF b.pos > tos + 9
               THEN MemMove(b.start, tos + 1 + z.bLen, tos + 9, b.pos - (tos + 9))
               ELSE b.start
      s1 == PutBytes(PutBytes(moved, tos, <<IF isArray THEN 19 ELSE 20>>),
                     tos + 1, VarBytes(byteSize))
      s2 == PutBytes(s1, tos + byteSize - z.nLen, Reverse(VarBytes(Len(idx))))
  IN  IF z.bLen < 9
      THEN [done |-> TRUE,
            b |-> PopFrame(Cut([b EXCEPT !.start = s2,
                                         !.pos = b.pos - 8 + z.nLen + z.bLen]))]
      ELSE [done |-> FALSE, b |-> b]

----------------------------------------------------------------------------
(* close(): the array path.                                                *)

\* lines 150-174 without the detection of equal lengths: a table for every
\* array of more than one member
NeedIndexTableAlways(len, idx) == Len(idx) > 1

\* lines 150-174: TRUE when the members do not all have the same length, so
\* that an index table (and the number of subvalues) is needed
NeedIndexTable(len, idx) ==
  LET n == Len(idx)
      subLen == idx[2] - idx[1]
  IN  IF n = 1 THEN FALSE
      ELSE IF len - idx[1] = n * (idx[2] - idx[1])
      THEN ~ (/\ len - idx[n] = subLen
              /\ \A i \in 2..(n - 1) : idx[i + 1] - idx[i] = subLen)
      ELSE TRUE

\* lines 176-194 without the branch for width 1
ArrayOffsetSizeFromTwo(len, n, needIndexTable, needNrSubs) ==
  IF BigLeq(BigAdd(len, IF needIndexTable THEN 2 * n ELSE 0), Max16)
  THEN 2
  ELSE IF BigLeq(BigAdd(len, IF needIndexTable THEN 4 * n ELSE 0), Max32)
  THEN 4
  ELSE 8

\* lines 176-194: the width of the offsets, the byte length and the count
ArrayOffsetSize(len, n, needIndexTable, needNrSubs) ==
  IF BigLeq(BigSub(BigAdd(len, IF needIndexTable THEN n ELSE 0),
                   IF needNrSubs THEN 6 ELSE 7), Max8)
  THEN 1
  ELSE IF BigLeq(BigAdd(len, IF needIndexTable THEN 2 * n ELSE 0), Max16)
  THEN 2
  ELSE IF BigLeq(BigAdd(len, IF needIndexTable THEN 4 * n ELSE 0), Max32)
  THEN 4
  ELSE 8

\* the bytes of an index or slot table: every entry as w little-endian bytes
RECURSIVE TableBytes(_, _)
TableBytes(entries, w) ==
  IF entries = <<>> THEN <<>>
  ELSE LE(Head(entries), w) \o TableBytes(Tail(entries), w)

\* Builder::closeArray
CloseArray(b, tos, idx) ==
  LET n == Len(idx)
      needIndexTable == NeedIndexTable(b.pos - tos, idx)
      needNrSubs == needIndexTable
      w == ArrayOffsetSize(Big(b.pos - tos), n, needIndexTable, needNrSubs)
      targetPos == IF needIndexTable THEN 3 ELSE 2
      diff == 9 - targetPos
      \* maybe move down the data
      s1 == IF w = 1 /\ b.pos > tos + 9
            THEN MemMove(b.start, tos + targetPos, tos + 9, b.pos - (tos + 9))
            ELSE b.start
      pos1 == IF w = 1 THEN b.pos - diff ELSE b.pos
      idx1 == IF w = 1 /\ needIndexTable
              THEN [i \in 1..n |-> idx[i] - diff] ELSE idx
      \* build the table
      s2 == IF needIndexTable
            THEN PutBytes(SubSeq(s1, 1, pos1), pos1, TableBytes(idx1, w))
            ELSE SubSeq(s1, 1, pos1)
      pos2 == IF needIndexTable THEN pos1 + w * n ELSE pos1
      \* the type byte, and the count at the end for width 8
      head == (IF needIndexTable THEN 6 ELSE 2)
              + (CASE w = 1 -> 0 [] w = 2 -> 1 [] w = 4 -> 2 [] w = 8 -> 3)
      s3 == IF w = 8 /\ needNrSubs THEN PutBytes(s2, pos2, LE(n, 8)) ELSE s2
      pos3 == IF w = 8 /\ needNrSubs THEN pos2 + 8 ELSE pos2
      \* the byte length and the count in the beginning
      s4 == PutBytes(PutBytes(s3, tos, <<head>>), tos + 1, LE(pos3 - tos, w))
      s5 == IF w < 8 /\ needNrSubs THEN PutBytes(s4, tos + w + 1, LE(n, w))
            ELSE s4
  IN  [b |-> PopFrame(Cut([b EXCEPT !.start = s5, !.pos = pos3])),
       exc |-> "none", idx |-> idx1]

----------------------------------------------------------------------------
(* Builder::computeCuckooHash.                                             *)

\* Builder::findAttrName(base, len): the bytes of the attribute name at
\* offset off; a head byte that is no string goes to Slice::makeKey(), which
\* throws when there is nothing to translate
FindAttrName(buf, off) ==
  LET h == buf[off + 1]
  IN  IF h >= 64 /\ h <= 190
      THEN [ok |-> TRUE, name |-> SubSeq(buf, off + 2, off + 1 + (h - 64))]
      ELSE IF h = 191
      THEN [ok |-> TRUE,
            name |-> SubSeq(buf, off + 10, off + 9 + ReadLE(buf, off + 1, 8))]
      ELSE [ok |-> FALSE, name |-> <<>>]

RECURSIVE SumBytes(_)
SumBytes(s) == IF s = <<>> THEN 0 ELSE Head(s) + SumBytes(Tail(s))

\* XXH64(attrName, attrLen, Slice::seedTable[3 * seed + j]): a family of
\* hash functions stands for it.  Member 1 spreads the names; member 2 sends
\* every name to 0 under seed 0, so that seed 0 fails whenever two members
\* are to be placed; member 3 is the hash on names that collide under each
\* of the 768 seeds of the table (a hash of finite range has such names
\* among any infinite set of strings); member 4 reads the values from the
\* table ck.h, which stands for any hash under one seed
Hash(name, seed, j) ==
  CASE hsel = 2 /\ seed = 0 -> 0
    [] hsel = 3 -> 7 * seed + j
    [] hsel = 4 -> ck.h[name][j + 1]
    [] OTHER -> 3 * SumBytes(name) + 7 * seed + j

\* d(e), the k-th draw of the engine seeded with 123456789: a number in 0..2
Rand(k) == (k * k + hsel) % 3

\* the size of the first table tried
InitialSlots(n) == n + (n * 3) \div 20 + 1

\* the largest r with r * r <= n
ISqrt(n) == CHOOSE r \in 0..n : r * r <= n /\ (r + 1) * (r + 1) > n

SearchLimit(nrSlots) ==
  IF nrSlots < 400 THEN nrSlots * 3 ELSE 1200 + ISqrt(nrSlots)

\* the lambda insert: c holds what it captures (buf, tos, seed, nrSlots,
\* limit, uniq), ht the table, k the number of draws made so far.
\* res is "ok" (return true), "fail" (return false) or the exception thrown
RECURSIVE Insert(_, _, _, _, _, _)
Insert(c, ht, offset, checkUniqueness, count, k) ==
  LET attr == FindAttrName(c.buf, c.tos + offset)
      P(j) == Hash(attr.name, c.seed, j) % c.nrSlots
      \* doTheCheck(otherOffset) throws
      Same(otherOffset) ==
        FindAttrName(c.buf, c.tos + otherOffset).name = attr.name
      Put(j) == [res |-> "ok", ht |-> [ht EXCEPT ![P(j) + 1] = offset], k |-> k]
      Dup == [res |-> "DuplicateAttributeName", ht |-> ht, k |-> k]
      i == Rand(k)
      evicted == [ht EXCEPT ![P(i) + 1] = offset]
  IN  IF ~attr.ok THEN [res |-> "InvalidValueType", ht |-> ht, k |-> k]
      ELSE IF ht[P(0) + 1] = 0 THEN Put(0)
      ELSE IF checkUniqueness /\ Same(ht[P(0) + 1]) THEN Dup
      ELSE IF ht[P(1) + 1] = 0 THEN Put(1)
      ELSE IF checkUniqueness /\ Same(ht[P(1) + 1]) THEN Dup
      ELSE IF ht[P(2) + 1] = 0 THEN Put(2)
      ELSE IF checkUniqueness /\ Same(ht[P(2) + 1]) THEN Dup
      ELSE IF count + 1 <= c.limit
      THEN Insert(c, evicted, ht[P(i) + 1], FALSE, count + 1, k + 1)
      ELSE [res |-> "fail", ht |-> evicted, k |-> k + 1]

\* the for loop over index of one attempt, from member i on; Inserted goes
\* on after insert has returned r for member i
RECURSIVE InsertAll(_, _, _, _, _)
Inserted(c, idx, i, r) ==
  IF r.res = "ok" THEN InsertAll(c, r.ht, idx, i + 1, r.k) ELSE r

InsertAll(c, ht, idx, i, k) ==
  IF i > Len(idx) THEN [res |-> "ok", ht |-> ht, k |-> k]
  ELSE Inserted(c, idx, i, Insert(c, ht, idx[i], c.uniq, 0, k))

\* the do-while loop over the seeds, from seed on, for one table size;
\* SeedTried goes on after the attempt with seed has ended as r
RECURSIVE TrySeeds(_, _, _, _)
SeedTried(c, idx, seed, r) ==
  IF r.res = "fail"
  THEN IF (seed + 1) % 256 # 0
       THEN TrySeeds(c, idx, seed + 1, r.k)
       ELSE [res |-> "fail", ht |-> r.ht, seed |-> seed, k |-> r.k]
  ELSE [res |-> r.res, ht |-> r.ht, seed |-> seed, k |-> r.k]

TrySeeds(c, idx, seed, k) ==
  SeedTried(c, idx, seed,
            InsertAll([c EXCEPT !.seed = seed], [s \in 1..c.nrSlots |-> 0],
                      idx, 1, k))

\* the outer loop over the table sizes.  The loop does not end when no round
\* succeeds and the size stays what it is: the engine of this model repeats
\* after three draws, so a size met again with the same draw is a cycle
RECURSIVE TrySizes(_, _, _, _)
\* after the seeds of one size have ended as r
SizeTried(c, idx, seen, r) ==
  LET grown == (c.nrSlots * 110) \div 100
  IN  IF r.res # "fail"
      THEN [res |-> r.res, ht |-> r.ht, seed |-> r.seed, nrSlots |-> c.nrSlots]
      ELSE IF <<grown, r.k % 3>> \in seen
      THEN [res |-> "diverges", ht |-> r.ht, seed |-> r.seed,
            nrSlots |-> c.nrSlots]
      ELSE TrySizes([c EXCEPT !.nrSlots = grown], idx, r.k % 3,
                    seen \cup {<<grown, r.k % 3>>})

TrySizes(c, idx, k, seen) == SizeTried(c, idx, seen, TrySeeds(c, idx, 0, k))

\* Builder::computeCuckooHash(ht, seed): the table, the seed, the number of
\* slots, and "ok", the exception thrown or "diverges"
ComputeCuckooHash(b, tos, idx) ==
  LET nrSlots == InitialSlots(Len(idx))
      c == [buf |-> b.start, tos |-> tos, seed |-> 0, nrSlots |-> nrSlots,
            limit |-> SearchLimit(nrSlots),
            uniq |-> options.checkAttributeUniqueness]
  IN  TrySizes(c, idx, 0, {<<nrSlots, 0>>})

----------------------------------------------------------------------------
(* close(): the object path.                                               *)

\* lines 313-329: the width of the offsets, the byte length and the counts
ObjectOffsetSize(len, nrSlots) ==
  IF BigLeq(BigSub(BigAdd(len, nrSlots), 4), Max8) THEN 1
  ELSE IF BigLeq(BigAdd(len, 2 * nrSlots), Max16) THEN 2
  ELSE IF BigLeq(BigAdd(len, 4 * nrSlots), Max32) THEN 4
  ELSE 8

\* where line 404 stores the seed for widths 1 and 2: _start[base + offsetSize]
SeedOffset(tos, w) == (IF w = 1 THEN 3 ELSE 5) + w

\* lines 331-412 of close(), after computeCuckooHash returned h
CloseObject(b, tos, idx, h) ==
  LET n == Len(idx)
      nrSlots == h.nrSlots
      w == ObjectOffsetSize(Big(b.pos - tos), nrSlots)
      \* maybe move down the data
      s1 == IF w = 1 /\ b.pos > tos + 9
            THEN MemMove(b.start, tos + 5, tos + 9, b.pos - (tos + 9))
            ELSE b.start
      pos1 == IF w = 1 THEN b.pos - 4 ELSE b.pos
      idx1 == IF w = 1 THEN [i \in 1..n |-> idx[i] - 4] ELSE idx
      ht1 == IF w = 1
             THEN [i \in 1..nrSlots |-> IF h.ht[i] # 0 THEN h.ht[i] - 4 ELSE 0]
             ELSE h.ht
      \* build the table
      s2 == PutBytes(SubSeq(s1, 1, pos1), pos1, TableBytes(ht1, w))
      pos2 == pos1 + w * nrSlots
      \* the type byte, and the fields at the end for widths 4 and 8
      head == CASE w = 1 -> 11 [] w = 2 -> 12 [] w = 4 -> 13 [] w = 8 -> 14
      trail == CASE w = 4 -> LE(nrSlots, 4) \o LE(h.seed, 1)
                 [] w = 8 -> LE(n, 8) \o LE(nrSlots, 8) \o LE(h.seed, 1)
                 [] OTHER -> <<>>
      s3 == PutBytes(PutBytes(s2, pos2, trail), tos, <<head>>)
      pos3 == pos2 + Len(trail)
      \* the byte length, the count, the number of slots and the seed
      s4 == PutBytes(s3, tos + 1, LE(pos3 - tos, w))
      s5 == IF w < 8 THEN PutBytes(s4, tos + w + 1, LE(n, w)) ELSE s4
      s6 == IF w < 4
            THEN PutBytes(PutBytes(s5, tos + (IF w = 1 THEN 3 ELSE 5),
                                   LE(nrSlots, w)),
                          SeedOffset(tos, w), <<h.seed>>)
            ELSE s5
  IN  [b |-> PopFrame(Cut([b EXCEPT !.start = s6, !.pos = pos3])),
       exc |-> "none", idx |-> idx1]

\* lines 305-412 of close(): b has the head byte fixed to 0x0b, h is what
\* computeCuckooHash returned or threw
CloseHashed(b, tos, idx, h) ==
  IF h.res # "ok"
  THEN [b |-> b, exc |-> h.res, idx |-> <<>>]
  ELSE CloseObject(b, tos, idx, h)

\* lines 308-412 of close(): b has the head byte fixed to 0x0b
CloseFixed(b, tos, idx) ==
  CloseHashed(b, tos, idx, ComputeCuckooHash(b, tos, idx))

\* lines 301-412 of close(): the array and the object path
CloseIndexed(b, tos, isArray, idx) ==
  IF isArray
  THEN CloseArray(b, tos, idx)
  ELSE CloseFixed([b EXCEPT !.start = PutBytes(@, tos, <<11>>)], tos, idx)

\* lines 291-299 of close(): compact is what closeCompactArrayOrObject did
CloseTried(b, tos, isArray, idx, compact) ==
  IF compact.done
  THEN [b |-> compact.b, exc |-> "none", idx |-> idx]
  ELSE CloseIndexed(b, tos, isArray, idx)

\* Builder::close(): the builder, the exception, and for a successful close
\* the vector the closed frame leaves in _index[depth]
Close(b) ==
  IF b.stack = <<>>
  THEN [b |-> b, exc |-> "BuilderNeedOpenCompound", idx |-> <<>>]
  ELSE
  LET tos == Last(b.stack)
      head == b.start[tos + 1]
      isArray == head \in {6, 19}
      idx == b.index[Len(b.stack)]
      tryCompact ==
        \/ head \in {19, 20}
        \/ head = 6 /\ options.buildUnindexedArrays
        \/ head = 11 /\ (options.buildUnindexedObjects \/ Len(idx) = 1)
  IN  IF idx = <<>>
      THEN [b |-> CloseEmptyArrayOrObject(b, tos, isArray), exc |-> "none",
            idx |-> idx]
      ELSE CloseTried(b, tos, isArray, idx,
                      IF tryCompact
                      THEN CloseCompactArrayOrObject(b, tos, isArray, idx)
                      ELSE [done |-> FALSE, b |-> b])

----------------------------------------------------------------------------
(* The arguments the public calls are made with.                           *)

Val(vt, ct, n, s, u) ==
  [kind |-> "Value", vt |-> vt, ct |-> ct, n |-> n, s |-> s, u |-> u]

\* Value(1) and Value(10) as SmallInt; "a" and "ab"; an External; Values
\* that set() rejects; the four ways to open a compound
Values ==
  {Val("SmallInt", "Int64", n, <<>>, FALSE) : n \in {1, 10}}
  \cup {StringValue(s) : s \in {<<97>>, <<97, 98>>}}
  \cup {Val("External", "VoidPtr", 1, <<>>, FALSE),
        Val("None", "None", 0, <<>>, FALSE),
        Val("Bool", "Int64", 1, <<>>, FALSE),
        Val("BCD", "None", 0, <<>>, FALSE)}
  \cup {Val(vt, "None", 0, <<>>, u) : vt \in {"Array", "Object"}, u \in BOOLEAN}

\* ValuePairs: Custom of size 0 and of size 2, and a type that
\* set(ValuePair) rejects
Pairs ==
  {[kind |-> "Pair", vt |-> "Custom", s |-> <<>>],
   [kind |-> "Pair", vt |-> "Custom", s |-> <<240, 7>>],
   [kind |-> "Pair", vt |-> "Null", s |-> <<>>]}

\* Slices: the finished value 1
Slices == {[kind |-> "Slice", s |-> <<49>>]}

\* the values add(attrName, sub) is called with
AttrValues ==
  {Val("SmallInt", "Int64", 1, <<>>, FALSE), Val("None", "None", 0, <<>>, FALSE)}

AttrNames == {<<97>>}

Opt(uniq, unidxArr, unidxObj, noExt) ==
  [checkAttributeUniqueness |-> uniq, buildUnindexedArrays |-> unidxArr,
   buildUnindexedObjects |-> unidxObj, disallowExternals |-> noExt]

\* the builders of the model: their options and their hash function
Builders ==
  {<<Opt(FALSE, FALSE, FALSE, FALSE), 1>>, <<Opt(TRUE, FALSE, FALSE, FALSE), 2>>,
   <<Opt(TRUE, TRUE, TRUE, TRUE), 1>>}

----------------------------------------------------------------------------
(* History of the calls, for stating the claims.  ghost has one entry per  *)
(* open compound: the kind it was opened as, and for every value appended  *)
(* at its level by a call that returned normally the offsets (relative to  *)
(* the header) where the value begins and ends; the end of a compound that *)
(* is still open is 0.                                                     *)

\* last: the call, the exception it threw or "none", the builder it was
\* made on, and for a close the vector the closed frame leaves in _index
NoCall == [op |-> "none", exc |-> "none", was |-> Fresh, idx |-> <<>>]
Call(op, exc) == [op |-> op, exc |-> exc, was |-> Builder, idx |-> <<>>]

\* the ghost after a set of a value of type vt that took the builder from b
\* to c; a Value of type Array or Object opens a compound
GhostSet(g, b, c, vt) ==
  LET d == Len(g)
      opened == vt \in {"Array", "Object"}
      item == [at |-> b.pos - b.stack[d],
               end |-> IF opened THEN 0 ELSE c.pos - b.stack[d]]
      g1 == IF d = 0 THEN g ELSE [g EXCEPT ![d].items = Append(@, item)]
  IN  IF opened
      THEN Append(g1, [kind |-> IF vt = "Array" THEN "array" ELSE "object",
                       items |-> <<>>])
      ELSE g1

\* the ghost after a close that took the builder from b to c
GhostClose(g, b, c) ==
  LET g1 == Front(g)
      d == Len(g1)
  IN  IF d = 0 THEN g1
      ELSE [g1 EXCEPT ![d].items[Len(g1[d].items)].end = c.pos - c.stack[d]]

\* the ghost after a removeLast that took the builder from b to c: the
\* values that began at or after the new pos are gone, but for the values of
\* size 0 recorded at the new pos before the member that was removed
GhostRemove(g, b, c) ==
  LET d == Len(c.stack)
      cut == c.pos - Last(c.stack)
      before(it) == it.at < cut
      isCut(e) == e = cut
      stay == Len(SelectSeq(c.index[d], isCut))
      kept == SelectSeq(g[d].items, before)
  IN  [g EXCEPT ![d].items = SubSeq(@, 1, Len(kept) + stay)]

----------------------------------------------------------------------------
(* The state machine: one action per public call.                          *)

\* wIn and wOut before any size-level close
NoSizes == [kind |-> "none", len |-> Big(0), n |-> 0, table |-> FALSE,
            nrSlots |-> 0]
NoWidth == [w |-> 0, final |-> Big(0), written |-> Big(0)]
\* ck and rs while computeCuckooHash is not followed and nothing is reserved
NoCuckoo == [pc |-> "none"]
NoReserve == [op |-> "none"]

Init ==
  /\ start = Fresh.start
  /\ pos = Fresh.pos
  /\ stack = Fresh.stack
  /\ index = Fresh.index
  /\ keyWritten = Fresh.keyWritten
  /\ \E bo \in Builders : options = bo[1] /\ hsel = bo[2]
  /\ last = NoCall
  /\ ghost = <<>>
  /\ back = 0
  /\ wIn = NoSizes
  /\ wOut = NoWidth
  /\ ck = NoCuckoo
  /\ rs = NoReserve

\* the call before has returned or thrown
Ready == last.exc # "diverges"

\* A call that throws and leaves the builder as it was is no step of the
\* state machine: nothing that follows depends on it.  What such calls throw
\* is stated about the operators (AddInternal, RemoveLast, Close) in every
\* reachable state.
Effect(r) == r.exc = "none" \/ r.b # Builder

\* the frame on top can take one more member
Room ==
  IF ghost = <<>> THEN pos <= MaxTop
  ELSE LET g == ghost[Len(ghost)]
       IN  /\ Len(g.items) < (IF g.kind = "object" THEN 2 * MaxIndex
                              ELSE MaxIndex)
           /\ stack # <<>> => keyWritten \/ Len(index[Len(stack)]) < MaxIndex

\* the call is counted in back when it throws or is removeLast
Counted(isBack) ==
  IF isBack THEN back < MaxBack /\ back' = back + 1 ELSE back' = back

Become(b) ==
  /\ start' = b.start
  /\ pos' = b.pos
  /\ stack' = b.stack
  /\ index' = b.index
  /\ keyWritten' = b.keyWritten

\* add(Value const&), add(ValuePair const&), add(Slice const&)
Add(op, item) ==
  \E r \in {AddInternal(Builder, item)} :
      /\ Ready /\ Room
      /\ r.b.pos <= MaxPos
      /\ Effect(r)
      /\ Counted(r.exc # "none")
      /\ Become(r.b)
      /\ last' = Call(op, r.exc)
      /\ ghost' = IF r.exc = "none"
                  THEN GhostSet(ghost, Builder, r.b,
                                IF item.kind = "Value" THEN item.vt ELSE "Slice")
                  ELSE ghost
      /\ UNCHANGED <<options, hsel, wIn, wOut, ck, rs>>

AddValue == \E item \in Values : Add("add", item)
AddPair == \E item \in Pairs : Add("add", item)
AddSlice == \E item \in Slices : Add("add", item)

\* add(std::string const& attrName, Value const& sub)
AddAttr ==
  \E name \in AttrNames, item \in AttrValues :
    \E r \in {AddInternalAttr(Builder, name, item)},
       \* the builder after the key, when the call returned normally
       k \in {SetValue(IF stack # <<>> THEN ReportAdd(Builder) ELSE Builder,
                       StringValue(name)).b},
       b \in {Builder} :
        /\ Ready /\ Room
        /\ r.b.pos <= MaxPos
        /\ Effect(r)
        /\ Counted(r.exc # "none")
        /\ Become(r.b)
        /\ last' = Call("add", r.exc)
        /\ ghost' = IF r.exc = "none"
                    THEN GhostSet(GhostSet(ghost, b, k, "String"), k, r.b, item.vt)
                    ELSE ghost
        /\ UNCHANGED <<options, hsel, wIn, wOut, ck, rs>>

\* removeLast()
DoRemoveLast ==
  \E r \in {RemoveLast(Builder)} :
      /\ Ready
      /\ Effect(r)
      /\ Counted(TRUE)
      /\ Become(r.b)
      /\ last' = Call("removeLast", r.exc)
      /\ ghost' = IF r.exc = "none" THEN GhostRemove(ghost, Builder, r.b)
                  ELSE ghost
      /\ UNCHANGED <<options, hsel, wIn, wOut, ck, rs>>

\* close()
DoClose ==
  \E r \in {Close(Builder)} :
      /\ Ready
      /\ Effect([b |-> r.b, exc |-> r.exc])
      /\ Counted(r.exc # "none")
      /\ Become(r.b)
      /\ last' = [Call("close", r.exc) EXCEPT !.idx = r.idx]
      /\ ghost' = IF r.exc = "none" THEN GhostClose(ghost, Builder, r.b)
                  ELSE ghost
      /\ UNCHANGED <<options, hsel, wIn, wOut, ck, rs>>

Next == AddValue \/ AddPair \/ AddSlice \/ AddAttr \/ DoRemoveLast \/ DoClose

Spec == Init /\ [][Next]_vars


----------------------------------------------------------------------------
(* The sizes of a close in non-compact form.  The thresholds of the widths *)
(* lie at 2^8, 2^16 and 2^32 bytes; here close is followed on the sizes    *)
(* alone: from len = _pos - tos, the number of members and the number of   *)
(* slots to the width, the final length and the byte length written.      *)

\* closeArray, lines 196-247: the length of the array once it is closed
\* with width w
ArrayFinalLength(len, n, needIndexTable, w) ==
  LET moved == IF w = 1 THEN BigSub(len, IF needIndexTable THEN 6 ELSE 7)
               ELSE len
      tabled == IF needIndexTable THEN BigAdd(moved, w * n) ELSE moved
  IN  IF w = 8 /\ needIndexTable THEN BigAdd(tabled, 8) ELSE tabled

\* close, lines 331-381: the length of the object once it is closed with
\* width w
ObjectFinalLength(len, nrSlots, w) ==
  LET moved == IF w = 1 THEN BigSub(len, 4) ELSE len
      tabled == BigAdd(moved, w * nrSlots)
  IN  CASE w = 4 -> BigAdd(tabled, 5)
        [] w = 8 -> BigAdd(tabled, 17)
        [] OTHER -> tabled

\* the length of the compound of sizes in once it is closed with width w
FinalLength(in, w) ==
  IF in.kind = "array"
  THEN ArrayFinalLength(in.len, in.n, in.table, w)
  ELSE ObjectFinalLength(in.len, in.nrSlots, w)

\* the width close chooses, the length the compound ends with, and the byte
\* length written into its w bytes ("x & 0xff; x >>= 8", w times)
CloseSizes(in) ==
  LET w == IF in.kind = "array"
           THEN ArrayOffsetSize(in.len, in.n, in.table, in.table)
           ELSE ObjectOffsetSize(in.len, in.nrSlots)
      final == FinalLength(in, w)
  IN  [w |-> w, final |-> final, written |-> BigTrunc(final, w)]

\* 2^32
Pow32 == BigAdd(Max32, 1)

\* the lengths around the thresholds
Lens ==
  {BigAdd(BigSub(t, MaxSlack), k) :
     t \in {Big(256), Big(65536), Pow32}, k \in 0..(2 * MaxSlack)}

\* closeArray on an array of n members of which len - 9 bytes are written
CloseArraySize ==
  \E len \in Lens, n \in 1..MaxN, table \in BOOLEAN :
    \* no table: one member, or members of the same length
    /\ table => n > 1
    /\ ~table => (len.lo - 9) % n = 0
    /\ wIn' = [kind |-> "array", len |-> len, n |-> n, table |-> table,
               nrSlots |-> 0]
    /\ wOut' = CloseSizes(wIn')
    /\ UNCHANGED <<start, pos, stack, index, keyWritten, options, hsel, last,
                   ghost, back, ck, rs>>

\* close on an object of n members whose table has the size first tried
CloseObjectSize ==
  \E len \in Lens, n \in 2..MaxN :
    /\ wIn' = [kind |-> "object", len |-> len, n |-> n, table |-> TRUE,
               nrSlots |-> InitialSlots(n)]
    /\ wOut' = CloseSizes(wIn')
    /\ UNCHANGED <<start, pos, stack, index, keyWritten, options, hsel, last,
                   ghost, back, ck, rs>>

NextWidth == CloseArraySize \/ CloseObjectSize

SpecWidth == Init /\ [][NextWidth]_vars

----------------------------------------------------------------------------
(* What the claims are stated over: the call before this state (last), the *)
(* builder it was made on (last.was) and the builder as it is now.         *)

\* the last call was op and returned normally
Returned(op) == last.op = op /\ last.exc = "none"

\* the last call closed a compound in which no key was waiting for its
\* value: its header offset, its members and its head byte as they were
\* before the call
Closed == Returned("close") /\ ~last.was.keyWritten
WasTos == Last(last.was.stack)
WasIdx == last.was.index[Len(last.was.stack)]
WasHead == last.was.start[WasTos + 1]

\* the innermost open compound is an object
InObject == stack # <<>> /\ TosHead(Builder) \in {11, 20}

\* the attribute name of the member recorded at offset off of the frame at tos
NameAt(b, tos, off) == FindAttrName(b.start, tos + off).name

\* two members of the innermost open compound of b have equal attribute names
EqualNames(b) ==
  LET tos == Last(b.stack)
      idx == b.index[Len(b.stack)]
  IN  \E i, j \in 1..Len(idx) :
        i < j /\ NameAt(b, tos, idx[i]) = NameAt(b, tos, idx[j])

----------------------------------------------------------------------------
(* An indexed object as a reader finds it in the bytes: the object begins  *)
(* at tos in buf and ends before end.                                      *)

ObjectWidth(buf, tos) ==
  CASE buf[tos + 1] = 11 -> 1 [] buf[tos + 1] = 12 -> 2
    [] buf[tos + 1] = 13 -> 4 [] buf[tos + 1] = 14 -> 8

StoredNrSlots(buf, tos, end) ==
  LET w == ObjectWidth(buf, tos)
  IN  CASE w = 1 -> ReadLE(buf, tos + 3, 1)
        [] w = 2 -> ReadLE(buf, tos + 5, 2)
        [] w = 4 -> ReadLE(buf, end - 5, 4)
        [] w = 8 -> ReadLE(buf, end - 9, 8)

StoredSeed(buf, tos, end) ==
  LET w == ObjectWidth(buf, tos)
  IN  CASE w = 1 -> ReadLE(buf, tos + 4, 1)
        [] w = 2 -> ReadLE(buf, tos + 7, 1)
        [] OTHER -> ReadLE(buf, end - 1, 1)

\* where the slot table begins
TableBase(buf, tos, end) ==
  LET w == ObjectWidth(buf, tos)
  IN  end - (CASE w = 4 -> 5 [] w = 8 -> 17 [] OTHER -> 0)
          - w * StoredNrSlots(buf, tos, end)

StoredSlot(buf, tos, end, s) ==
  ReadLE(buf, TableBase(buf, tos, end) + ObjectWidth(buf, tos) * s,
         ObjectWidth(buf, tos))

----------------------------------------------------------------------------
(* C1.  Cuckoo correctness: after every close that leaves an object with   *)
(* head 0x0b..0x0e, at any header offset, every key having had its value,  *)
(* the offset of every member is in                                        *)
(* exactly one slot of the table written, and that slot is one of the      *)
(* three positions h_j(name) mod nrSlots, j in 0..2, computed with the     *)
(* seed and the nrSlots stored in the encoding of that object.             *)
CuckooCorrect ==
  (Closed /\ start[WasTos + 1] \in 11..14) =>
    LET tos == WasTos
        n == StoredNrSlots(start, tos, pos)
        seed == StoredSeed(start, tos, pos)
        Slot(s) == StoredSlot(start, tos, pos, s)
    IN  /\ n > 0
        /\ TableBase(start, tos, pos) > tos
        /\ \A i \in 1..Len(last.idx) :
             LET off == last.idx[i]
                 name == NameAt(Builder, tos, off)
             IN  /\ Cardinality({s \in 0..(n - 1) : Slot(s) = off}) = 1
                 /\ \E j \in 0..2 : Slot(Hash(name, seed, j) % n) = off

----------------------------------------------------------------------------
(* C2.  Duplicate detection: with checkAttributeUniqueness set, closing an *)
(* object two of whose members (each a key with its value) have equal      *)
(* attribute names throws                                                  *)
(* DuplicateAttributeName, and no close returns normally on such an        *)
(* object, whatever the other options and the number of members.           *)
DuplicatesRejected ==
  options.checkAttributeUniqueness =>
    /\ (InObject /\ ~keyWritten /\ EqualNames(Builder)) =>
         Close(Builder).exc = "DuplicateAttributeName"
    /\ (Closed /\ WasHead \in {11, 20}) => ~EqualNames(last.was)

----------------------------------------------------------------------------
(* C3.  Key parity: between any two calls, while the innermost open        *)
(* compound is an object, keyWritten is true exactly when the last member  *)
(* is a key whose value has not been written; then close is not accepted,  *)
(* and otherwise a value that is no string fails with                      *)
(* BuilderKeyMustBeString.                                                 *)

\* the values added so far to the innermost open object end with a key
PendingKey == Len(ghost[Len(ghost)].items) % 2 = 1

KeyParity ==
  InObject =>
    /\ keyWritten <=> PendingKey
    /\ keyWritten => Close(Builder).exc # "none"
    /\ ~keyWritten =>
         /\ \A item \in Values :
              item.vt # "String" =>
                AddInternal(Builder, item).exc = "BuilderKeyMustBeString"
         /\ \A item \in Pairs :
              item.vt # "String" =>
                AddInternal(Builder, item).exc = "BuilderKeyMustBeString"
         /\ \A item \in Slices :
              item.s[1] \notin 64..191 =>
                AddInternal(Builder, item).exc = "BuilderKeyMustBeString"


----------------------------------------------------------------------------
(* C4.  Equal-stride detection.                                            *)

\* the encoded lengths of the members recorded in the compound the last
\* call closed: from each offset to the next, and to pos for the last
WasLen(i) ==
  (IF i < Len(WasIdx) THEN WasIdx[i + 1] ELSE last.was.pos - WasTos) - WasIdx[i]
WasEqualStride == \A i \in 1..Len(WasIdx) : WasLen(i) = WasLen(1)

\* the last call closed an array with at least one member
ClosedArray ==
  Returned("close") /\ WasHead \in {6, 19} /\ WasIdx # <<>>

\* the array closed has a head in 0x02..0x05, and the close appended neither
\* an index table nor a count: it only moved the members down for width 1
NoTableNoCount ==
  /\ start[WasTos + 1] \in 2..5
  /\ pos = last.was.pos - (IF start[WasTos + 1] = 2 THEN 7 ELSE 0)

NotCompact == WasHead = 6 /\ ~options.buildUnindexedArrays

----------------------------------------------------------------------------
(* C6.  The array ["a","ab"] under default options.                        *)

\* the builder after: open array, add "a", add "ab"
OpenAAb ==
  [start |-> <<6, 0, 0, 0, 0, 0, 0, 0, 0, 65, 97, 66, 97, 98>>, pos |-> 14,
   stack |-> <<0>>, index |-> <<<<9, 11>>>>, keyWritten |-> FALSE]

\* close has been called on it, under default options
ClosedAAb ==
  /\ Returned("close") /\ last.was = OpenAAb
  /\ options = Opt(FALSE, FALSE, FALSE, FALSE)

\* C6 as the specification states it: building ["a","ab"] with default
\* options yields exactly 06 09 02 41 61 42 61 62 03 05.
AAbBytesStated ==
  ClosedAAb => start = <<6, 9, 2, 65, 97, 66, 97, 98, 3, 5>>

\* ["a","ab"] has been built and closed under default options
AAbWitness == ClosedAAb /\ pos = 10

\* C6, amended: building ["a","ab"] with default options yields exactly
\* 06 0a 02 41 61 42 61 62 03 05: the byte length is 10, the two bytes of
\* the index table included.
AAbBytes ==
  ClosedAAb => /\ start = <<6, 10, 2, 65, 97, 66, 97, 98, 3, 5>>
               /\ pos = 10 /\ stack = <<>>

----------------------------------------------------------------------------
(* C7.  removeLast undoes the last add: when the last call added a member  *)
(* to the innermost open compound, removeLast leaves the builder as it was *)
(* before that call (pos, member offsets, stack, bytes below pos, key      *)
(* expectation); with no open compound it fails with                       *)
(* BuilderNeedOpenCompound, on a frame without members with                *)
(* BuilderNeedSubvalue.                                                    *)

\* the last call recorded one member in the compound that was open
AddedMember ==
  /\ Returned("add") /\ stack # <<>> /\ stack = last.was.stack
  /\ Len(index[Len(stack)]) = Len(last.was.index[Len(stack)]) + 1

RemoveLastUndoes ==
  /\ AddedMember => RemoveLast(Builder) = Ok(last.was)
  /\ stack = <<>> => RemoveLast(Builder).exc = "BuilderNeedOpenCompound"
  /\ (stack # <<>> /\ index[Len(stack)] = <<>>) =>
       RemoveLast(Builder).exc = "BuilderNeedSubvalue"

----------------------------------------------------------------------------
(* C8.  Every failing operation leaves the builder as it was before the    *)
(* call: a set/add that throws leaves pos, the stack, the member offsets,  *)
(* the bytes and the key expectation unchanged, and so does a close that   *)
(* throws DuplicateAttributeName.                                          *)
FailureLeavesState ==
  /\ \A item \in Values :
       LET r == AddInternal(Builder, item)
       IN  r.exc # "none" => r.b = Builder
  /\ \A item \in Pairs :
       LET r == AddInternal(Builder, item)
       IN  r.exc # "none" => r.b = Builder
  /\ \A item \in Slices :
       LET r == AddInternal(Builder, item)
       IN  r.exc # "none" => r.b = Builder
  /\ \A name \in AttrNames, item \in AttrValues :
       LET r == AddInternalAttr(Builder, name, item)
       IN  r.exc # "none" => r.b = Builder
  /\ LET r == Close(Builder)
     IN  r.exc = "DuplicateAttributeName" => r.b = Builder

----------------------------------------------------------------------------
(* C9.  Stack depth equals structural depth: the number of stack frames is *)
(* the number of compounds opened and not yet closed; every close that     *)
(* returns pops exactly one frame, close with an empty stack fails with    *)
(* BuilderNeedOpenCompound, and no other operation changes the depth.      *)

\* the last call was an add of a Value of type Array or Object that returned
Opened ==
  Returned("add") /\ Len(ghost) = Len(last.was.stack) + 1

----------------------------------------------------------------------------
(* C10.  Offset monotonicity: between calls, in every open frame the       *)
(* member offsets strictly increase, every member added is recorded, and   *)
(* each entry plus the encoded length of its member is the next entry, or  *)
(* pos - headerOffset for the last member.                                 *)
OffsetsMonotone ==
  \A d \in 1..Len(stack) :
    LET idx == index[d]
        n == Len(idx)
        items == ghost[d].items
        isObject == ghost[d].kind = "object"
        \* member i is one value of an array, a key and its value of an object
        first(i) == IF isObject THEN 2 * i - 1 ELSE i
        final(i) == IF ~isObject THEN i
                    ELSE IF 2 * i <= Len(items) THEN 2 * i ELSE 2 * i - 1
        next(i) == IF i < n THEN idx[i + 1] ELSE pos - stack[d]
    IN  /\ \A i \in 1..(n - 1) : idx[i] < idx[i + 1]
        /\ n = (IF isObject THEN (Len(items) + 1) \div 2 ELSE Len(items))
        /\ \A i \in 1..n :
             /\ idx[i] = items[first(i)].at
             /\ items[final(i)].end # 0 => items[final(i)].end = next(i)

----------------------------------------------------------------------------
(* C5.  Width selection: for every array or object closed in non-compact   *)
(* form the width chosen is the smallest of 1, 2, 4, 8 in whose layout the *)
(* final length of the compound fits in w bytes: the byte length written   *)
(* is the final length, and no smaller width would have fitted.            *)

\* the largest length w bytes hold
MaxOf(w) == CASE w = 1 -> Max8 [] w = 2 -> Max16 [] w = 4 -> Max32

WidthMinimal ==
  wIn.kind # "none" =>
    /\ wOut.w < 8 => BigLeq(wOut.final, MaxOf(wOut.w))
    /\ wOut.written = wOut.final
    /\ \A v \in {1, 2, 4} :
         v < wOut.w => ~BigLeq(FinalLength(wIn, v), MaxOf(v))

----------------------------------------------------------------------------
(* computeCuckooHash step by step, for the claims about its loops.  The    *)
(* builder holds an open object at offset 0 with its members recorded; ck  *)
(* holds the locals of computeCuckooHash and of the lambda insert, and pc, *)
(* the place reached: "clear" before an attempt, "insert" before an        *)
(* iteration of the loop of insert, "failed" after an attempt has failed,  *)
(* "returned" and "thrown".  The draws d(e) of the engine are not          *)
(* followed: each draw is any of 0, 1, 2.                                  *)

\* the objects followed have up to MaxKeys members
MaxKeys == 4
\* their attribute names, in document order: "a", "b", "c", ...
KeyNames == [i \in 1..MaxKeys |-> <<96 + i>>]

\* the builder after an object has been opened and the names have been
\* added to it, each with the value 1
RECURSIVE ObjectOf(_)
ObjectOf(names) ==
  IF names = <<>>
  THEN AddInternal(Fresh, Val("Object", "None", 0, <<>>, FALSE)).b
  ELSE AddInternalAttr(ObjectOf(Front(names)), Last(names),
                       Val("SmallInt", "Int64", 1, <<>>, FALSE)).b

\* lines 842-853: the locals when the outer loop is entered, for n members
CkStart(n, h) ==
  [pc |-> "clear", nrSlots |-> InitialSlots(n),
   limit |-> SearchLimit(InitialSlots(n)), seed |-> 0, ht |-> <<>>, i |-> 0,
   offset |-> 0, check |-> FALSE, count |-> 0, exc |-> "none", h |-> h]

\* _stack.back() and _index[_stack.size() - 1]
CkTos == Last(stack)
CkIndex == index[Len(stack)]

\* the attribute name of the member at otherOffset, as doTheCheck reads it
CkName(otherOffset) == FindAttrName(start, CkTos + otherOffset).name

\* lines 881-886 with the last free position for the first
FirstFreeFromLast(ht, p) ==
  IF ht[p[2]] = 0 THEN 2
  ELSE IF ht[p[1]] = 0 THEN 1
  ELSE IF ht[p[0]] = 0 THEN 0
  ELSE 3

\* lines 881-886: which of the three positions is the first free one; 3
\* when none is
FirstFree(ht, p) ==
  IF ht[p[0]] = 0 THEN 0
  ELSE IF ht[p[1]] = 0 THEN 1
  ELSE IF ht[p[2]] = 0 THEN 2
  ELSE 3

\* lines 881-886: doTheCheck throws for one of the occupied positions that
\* come before the first free one
MeetsTwin(c, p, f, name) ==
  c.check /\ \E j \in 0..2 : j < f /\ c.ht[p[j]] # 0 /\ CkName(c.ht[p[j]]) = name

\* "ht[pos] = offset; return true" and the for loop of lines 916-925
Placed(c, s) ==
  IF c.i = Len(CkIndex)
  THEN [c EXCEPT !.ht[s] = c.offset, !.pc = "returned"]
  ELSE [c EXCEPT !.ht[s] = c.offset, !.i = c.i + 1,
                 !.offset = CkIndex[c.i + 1],
                 !.check = options.checkAttributeUniqueness, !.count = 0]

\* lines 888-894, "play cuckoo", and the test of the do-while
Evicted(c, s) ==
  [c EXCEPT !.ht[s] = c.offset, !.offset = c.ht[s], !.check = FALSE,
            !.count = c.count + 1,
            !.pc = IF c.count + 1 <= c.limit THEN "insert" ELSE "failed"]

\* lines 912-916: the table is cleared and the for loop is entered
CkClear ==
  /\ ck.pc = "clear"
  /\ ck' = [ck EXCEPT !.ht = [s \in 1..ck.nrSlots |-> 0], !.i = 1,
                      !.offset = CkIndex[1],
                      !.check = options.checkAttributeUniqueness,
                      !.count = 0, !.pc = "insert"]
  /\ UNCHANGED <<start, pos, stack, index, keyWritten, options, hsel, last,
                 ghost, back, wIn, wOut, rs>>

\* one iteration of the do-while of insert, lines 861-895
CkProbe ==
  /\ ck.pc = "insert"
  /\ \E attr \in {FindAttrName(start, CkTos + ck.offset)} :
       \E p \in {[j \in 0..2 |->
                    (Hash(attr.name, ck.seed, j) % ck.nrSlots) + 1]} :
         \E f \in {FirstFree(ck.ht, p)} :
           IF ~attr.ok
           THEN ck' = [ck EXCEPT !.pc = "thrown", !.exc = "InvalidValueType"]
           ELSE IF MeetsTwin(ck, p, f, attr.name)
           THEN ck' = [ck EXCEPT !.pc = "thrown",
                                 !.exc = "DuplicateAttributeName"]
           ELSE IF f < 3 THEN ck' = Placed(ck, p[f])
           ELSE \E d \in 0..2 : ck' = Evicted(ck, p[d])
  /\ UNCHANGED <<start, pos, stack, index, keyWritten, options, hsel, last,
                 ghost, back, wIn, wOut, rs>>

\* lines 926-927: seed++ has not wrapped, the do-while goes on
CkNextSeed ==
  /\ ck.pc = "failed"
  /\ (ck.seed + 1) % 256 # 0
  /\ ck' = [ck EXCEPT !.seed = ck.seed + 1, !.pc = "clear"]
  /\ UNCHANGED <<start, pos, stack, index, keyWritten, options, hsel, last,
                 ghost, back, wIn, wOut, rs>>

\* lines 927-930 and 909: seed++ has wrapped to 0, the table is enlarged and
\* the outer loop goes on
CkEnlarge ==
  /\ ck.pc = "failed"
  /\ (ck.seed + 1) % 256 = 0
  /\ ck' = [ck EXCEPT !.seed = 0, !.nrSlots = (ck.nrSlots * 110) \div 100,
                      !.pc = "clear"]
  /\ UNCHANGED <<start, pos, stack, index, keyWritten, options, hsel, last,
                 ghost, back, wIn, wOut, rs>>

NextCuckoo == CkClear \/ CkProbe \/ CkNextSeed \/ CkEnlarge

\* computeCuckooHash is entered on the builder b, which holds an open object
CuckooEntered(b, h) ==
  /\ start = b.start
  /\ pos = b.pos
  /\ stack = b.stack
  /\ index = b.index
  /\ keyWritten = b.keyWritten
  /\ ck = CkStart(Len(Last(b.index)), h)

InitCuckoo ==
  /\ \E uniq \in BOOLEAN : options = Opt(uniq, FALSE, FALSE, FALSE)
  /\ hsel \in 1..3
  /\ \E n \in 1..MaxKeys :
       \E b \in {ObjectOf(SubSeq(KeyNames, 1, n))} : CuckooEntered(b, <<>>)
  /\ last = NoCall
  /\ ghost = <<>>
  /\ back = 0
  /\ wIn = NoSizes
  /\ wOut = NoWidth
  /\ rs = NoReserve

\* the loops of computeCuckooHash are those of one sequential call: a step
\* that can be taken is taken
SpecCuckoo == InitCuckoo /\ [][NextCuckoo]_vars /\ WF_vars(NextCuckoo)

----------------------------------------------------------------------------
(* C11: cuckoo construction terminates.                                    *)

\* the attribute names of the members are pairwise distinct
CkDistinct ==
  \A i, j \in 1..Len(CkIndex) :
    i # j => CkName(CkIndex[i]) # CkName(CkIndex[j])

\* every member is in the table
CkAllPlaced ==
  \A i \in 1..Len(CkIndex) : \E s \in 1..ck.nrSlots : ck.ht[s] = CkIndex[i]

CkReturned == ck.pc = "returned" /\ CkAllPlaced

\* C11: for an object of N >= 1 pairwise distinct attribute names,
\* computeCuckooHash eventually returns with every member placed; the loop
\* over the seeds and the table sizes does not run forever
CuckooTerminates == CkDistinct => <>CkReturned

----------------------------------------------------------------------------
(* One attempt of computeCuckooHash (one seed, one table) with the check   *)
(* of uniqueness on, for any hash positions: the three hash values of each *)
(* name are drawn from all values, and each eviction is any of the three.  *)

\* the objects of an attempt have up to MaxTwin members
MaxTwin == 3
\* their attribute names are "a" and "b"; the first member is "a"
TwinNames ==
  {s \in UNION {[1..n -> {<<97>>, <<98>>}] : n \in 2..MaxTwin} : s[1] = <<97>>}

InitAttempt ==
  /\ options = Opt(TRUE, FALSE, FALSE, FALSE)
  /\ hsel = 4
  /\ \E names \in TwinNames :
       \E b \in {ObjectOf(names)} :
         \E h \in [{<<97>>, <<98>>} ->
                     [1..3 -> 0..(InitialSlots(Len(names)) - 1)]] :
           CuckooEntered(b, h)
  /\ last = NoCall
  /\ ghost = <<>>
  /\ back = 0
  /\ wIn = NoSizes
  /\ wOut = NoWidth
  /\ rs = NoReserve

NextAttempt == CkClear \/ CkProbe

SpecAttempt == InitAttempt /\ [][NextAttempt]_vars

----------------------------------------------------------------------------
(* C12: a duplicate name meets its twin on its first probe.                *)

\* the three candidate slots of the entry in hand
CkSlots ==
  [j \in 0..2 |-> (Hash(CkName(ck.offset), ck.seed, j) % ck.nrSlots) + 1]

\* the members inserted before the one the for loop is at
CkEarlier == {CkIndex[k] : k \in 1..(ck.i - 1)}

\* the entries in the table
CkInTable == {ck.ht[s] : s \in 1..ck.nrSlots} \ {0}

\* member o is about to be probed for the first time and a member inserted
\* before it has the same attribute name
CkFirstProbeOfTwin ==
  /\ ck.pc = "insert"
  /\ ck.check
  /\ \E m \in CkEarlier : CkName(m) = CkName(ck.offset)

\* C12: within one attempt with checkAttributeUniqueness on, for any hash
\* positions and any eviction choices: no member is lost from the table and
\* no slot is emptied once filled; a member probed for the first time whose
\* name an earlier member has meets that member in one of its three slots
\* before it meets an empty slot, so DuplicateAttributeName is raised; and
\* two members with equal names are never both placed, neither while
\* displaced entries are inserted without the check nor when the attempt
\* returns
TwinMetOnFirstProbe ==
  /\ [](ck.pc = "insert" =>
          /\ CkEarlier \subseteq CkInTable \cup {ck.offset}
          /\ \A m, o \in CkInTable : m # o => CkName(m) # CkName(o)
          /\ ~ck.check => \A m \in CkInTable : CkName(m) # CkName(ck.offset))
  /\ [](CkFirstProbeOfTwin =>
          MeetsTwin(ck, CkSlots, FirstFree(ck.ht, CkSlots), CkName(ck.offset)))
  /\ [](ck.pc = "returned" => CkDistinct)
  /\ [][ck.pc = "insert" =>
          \A s \in 1..ck.nrSlots : ck.ht[s] # 0 => ck'.ht[s] # 0]_vars

\* the third member is a duplicate, meets a member of another name in the
\* first of its slots and its twin in a later one, and the exception is
\* raised
TwinMetWitness ==
  /\ ck.pc = "thrown"
  /\ ck.exc = "DuplicateAttributeName"
  /\ ck.i = 3
  /\ CkName(ck.ht[CkSlots[0]]) # CkName(ck.offset)

----------------------------------------------------------------------------
(* C13: the outer loop over the seeds and the table sizes.                 *)

\* C13: computeCuckooHash starts with seed 0 and N + floor(3N/20) + 1
\* slots; every attempt starts on a cleared table; after a failed attempt
\* the next seed is tried on a table of the same size, in the order 0, 1,
\* ..., 255, and the seed under which all members are placed is returned;
\* when seed 255 has failed for the slot count S, the seeds start again at
\* 0 on a table of floor(1.10 * S) slots, which is more than S
SeedsThenLargerTable ==
  /\ ck.seed = 0 /\ ck.nrSlots = Len(CkIndex) + (3 * Len(CkIndex)) \div 20 + 1
  /\ [][/\ ck.pc = "clear" =>
             /\ \A s \in 1..ck.nrSlots : ck'.ht[s] = 0
             /\ ck'.seed = ck.seed /\ ck'.nrSlots = ck.nrSlots
        /\ ck.pc = "insert" =>
             /\ ck'.seed = ck.seed /\ ck'.nrSlots = ck.nrSlots
             /\ ck'.pc = "returned" =>
                  \A i \in 1..Len(CkIndex) :
                    \E s \in 1..ck.nrSlots : ck'.ht[s] = CkIndex[i]
        /\ (ck.pc = "failed" /\ ck.seed < 255) =>
             ck'.pc = "clear" /\ ck'.seed = ck.seed + 1
               /\ ck'.nrSlots = ck.nrSlots
        /\ (ck.pc = "failed" /\ ck.seed = 255) =>
             ck'.pc = "clear" /\ ck'.seed = 0
               /\ ck'.nrSlots = (110 * ck.nrSlots) \div 100
               /\ ck'.nrSlots > ck.nrSlots]_vars

----------------------------------------------------------------------------
(* closeCompactArrayOrObject on the sizes alone, around the lengths at     *)
(* which the width of the length field changes: 2^7, 2^14, ..., 2^56.      *)

\* 2^(7k) for k = 1..8
VarThresholds ==
  {Big(128), Big(16384), Big(2097152), Big(268435456),
   [hi |-> 32, lo |-> 0], [hi |-> 4096, lo |-> 0],
   [hi |-> 524288, lo |-> 0], [hi |-> 67108864, lo |-> 0]}

\* the lengths _pos - tos around the thresholds
CompactLens ==
  {BigAdd(BigSub(t, MaxSlack), k) : t \in VarThresholds, k \in 0..(2 * MaxSlack)}

\* the numbers of members: their count takes one, two or three bytes
CompactCounts == (1..MaxN) \cup {128, 16384}

\* lines 103-139 on a compound of n members with _pos - tos = len: the
\* sizes, whether the compact form is used, and where (relative to tos) the
\* length field, the payload and the count are put, and the final _pos
CompactLayout(len, n, z) ==
  [done |-> z.bLen < 9, bLen |-> z.bLen, nLen |-> z.nLen,
   byteSize |-> z.byteSize,
   lenFrom |-> 1, lenTo |-> BigVarLen(z.byteSize),
   payloadFrom |-> 1 + z.bLen,
   payloadEnd |-> BigAdd(BigSub(len, 9), 1 + z.bLen),
   countFrom |-> BigSub(z.byteSize, VarLen(n)),
   countTo |-> BigSub(z.byteSize, 1),
   pos |-> BigAdd(BigSub(len, 8), z.nLen + z.bLen)]

\* closeCompactArrayOrObject on a compound of n members of at least one
\* byte each
CloseCompactSize ==
  \E len \in CompactLens, n \in CompactCounts :
    /\ BigLeq(Big(n + 9), len)
    /\ wIn' = [kind |-> "compact", len |-> len, n |-> n, table |-> FALSE,
               nrSlots |-> 0]
    /\ wOut' = CompactLayout(len, n, CompactSizes(len, n))
    /\ UNCHANGED <<start, pos, stack, index, keyWritten, options, hsel, last,
                   ghost, back, ck, rs>>

NextCompact == CloseCompactSize

SpecCompact == Init /\ [][NextCompact]_vars

----------------------------------------------------------------------------
(* C14: the length of the compact form is self-consistent.                 *)

\* 1 + P + varint_width(N) for the payload of P = len - 9 bytes
CompactBase == BigAdd(BigSub(wIn.len, 8), VarLen(wIn.n))

\* the width of the length field: the least k for which the total length
\* 1 + k + P + varint_width(N) takes k bytes as a varint
FieldWidth ==
  CHOOSE k \in 1..10 :
    /\ BigVarLen(BigAdd(CompactBase, k)) = k
    /\ \A j \in 1..(k - 1) : BigVarLen(BigAdd(CompactBase, j)) # j

\* C14: for a compound of N >= 1 members and a payload of P bytes, the
\* compact form is used exactly when the length field needs less than 9
\* bytes; then the byte length B is 1 + varint_width(B) + P +
\* varint_width(N), the length field occupies tos+1 .. tos+varint_width(B),
\* the payload follows it, the count follows the payload and ends at
\* tos+B-1, and the final pos is tos+B
CompactLengthConsistent ==
  wIn.kind = "compact" =>
    /\ wOut.done <=> FieldWidth < 9
    /\ wOut.done =>
         /\ wOut.byteSize = BigAdd(CompactBase, BigVarLen(wOut.byteSize))
         /\ wOut.bLen = FieldWidth
         /\ wOut.lenFrom = 1 /\ wOut.lenTo = wOut.bLen
         /\ wOut.payloadFrom = wOut.lenTo + 1
         /\ wOut.payloadEnd = wOut.countFrom
         /\ wOut.countTo = BigSub(wOut.byteSize, 1)
         /\ wOut.pos = wOut.byteSize

\* the compact form is used and the length field is one byte longer than
\* the length without it would need: the reconciliation has been made
CompactRetryWitness ==
  /\ wIn.kind = "compact"
  /\ wOut.done
  /\ wOut.bLen = BigVarLen(CompactBase) + 1

----------------------------------------------------------------------------
(* C15: close rewrites only the bytes of the compound it closes.           *)

\* what computeCuckooHash returned for the object closed
WasHashed ==
  ComputeCuckooHash([last.was EXCEPT !.start = PutBytes(@, WasTos, <<11>>)],
                    WasTos, WasIdx)

\* the fields close has written for an object of width w, read at the
\* offsets they belong to: tos+1, tos+1+w, tos+1+2w and tos+1+3w
FieldsAt(w, h) ==
  /\ ReadLE(start, WasTos + 1, w) = pos - WasTos
  /\ ReadLE(start, WasTos + 1 + w, w) = Len(WasIdx)
  /\ ReadLE(start, WasTos + 1 + 2 * w, w) = h.nrSlots
  /\ ReadLE(start, WasTos + 1 + 3 * w, 1) = h.seed

\* C15: closing a compound whose header is at offset tos leaves every byte
\* before tos as it was; for an object of width 1 the byte length, the
\* count, nrSlots and the seed are at tos+1, tos+2, tos+3 and tos+4, for
\* width 2 at tos+1..2, tos+3..4, tos+5..6 and tos+7, at every tos
CloseKeepsPrefix ==
  Closed =>
    /\ SubSeq(start, 1, WasTos) = SubSeq(last.was.start, 1, WasTos)
    /\ start[WasTos + 1] = 11 => FieldsAt(1, WasHashed)
    /\ start[WasTos + 1] = 12 => FieldsAt(2, WasHashed)

----------------------------------------------------------------------------
(* The capacity of the buffer.  rs follows _pos and the capacity along the *)
(* reserveSpace calls and the writes of set and close.  pos and cap are    *)
(* counted from a point of the buffer before which these calls write only  *)
(* below _pos; over tells that a byte has been written at or above the     *)
(* capacity, op and arg by which call.  reserveSpace, appendLength and     *)
(* appendUInt are not in src/: reserveSpace leaves the least capacity it   *)
(* guarantees, and hres tells whether appendLength and appendUInt reserve  *)
(* what they write.                                                        *)

\* no value is added that would take pos beyond MaxBuf
MaxBuf == 160

\* reserveSpace(n): the capacity is at least _pos + n after it
ReserveSpace(m, n) ==
  [m EXCEPT !.cap = IF m.cap >= m.pos + n THEN m.cap ELSE m.pos + n]

\* n bytes are written from the offset from on
WriteAt(m, from, n) ==
  [m EXCEPT !.over = m.over \/ (n > 0 /\ from + n > m.cap)]

\* n bytes are written at _pos and _pos is advanced by n
WriteOn(m, n) == [WriteAt(m, m.pos, n) EXCEPT !.pos = m.pos + n]

\* appendLength(v, n)
RsAppendLength(m, n) == WriteOn(IF m.hres THEN ReserveSpace(m, n) ELSE m, n)

\* appendUInt(v, base)
RsAppendUInt(m, v) ==
  WriteOn(IF m.hres THEN ReserveSpace(m, 9) ELSE m, 1 + UIntWidth(v))

\* lines 629-657 and 739-755: a string of size bytes
RsString(m, size) ==
  IF size <= 126
  THEN WriteOn(WriteOn(ReserveSpace(m, 1 + size), 1), size)
  ELSE WriteOn(RsAppendLength(WriteOn(ReserveSpace(m, 1 + 8 + size), 1), 8),
               size)

\* set(Value const&), lines 468-710, for the types written in Builder.cpp
RsSetValue(m, vt, size) ==
  CASE vt \in {"Null", "Bool", "SmallInt", "Illegal", "MinKey", "MaxKey"} ->
         WriteOn(ReserveSpace(m, 1), 1)
    [] vt = "Double" -> RsAppendLength(WriteOn(ReserveSpace(m, 1 + 8), 1), 8)
    [] vt = "External" -> WriteOn(WriteOn(ReserveSpace(m, 1 + 8), 1), 8)
    [] vt = "String" -> RsString(m, size)
    [] vt = "Binary" ->
         WriteOn(RsAppendUInt(ReserveSpace(m, 9 + size), size), size)
    [] vt \in {"Array", "Object"} -> WriteOn(ReserveSpace(m, 9), 9)

\* set(Slice const&), lines 713-721
RsSetSlice(m, l) == WriteOn(ReserveSpace(m, l), l)

\* set(ValuePair const&), lines 723-770
RsSetPair(m, vt, size) ==
  CASE vt = "Binary" -> WriteOn(RsAppendUInt(m, size), size)
    [] vt = "String" -> RsString(m, size)
    [] vt = "Custom" -> WriteOn(ReserveSpace(m, size), size)

\* closeArray, lines 196-247, with width w on n members
RsCloseArray(m, w, n, needIndexTable) ==
  LET moved == IF w = 1
               THEN [m EXCEPT !.pos = m.pos - (IF needIndexTable THEN 6 ELSE 7)]
               ELSE m
      tabled == IF needIndexTable
                THEN WriteOn(ReserveSpace(moved,
                                          w * n + (IF w = 8 THEN 8 ELSE 0)),
                             w * n)
                ELSE moved
  IN  IF w = 8 /\ needIndexTable THEN RsAppendLength(tabled, 8) ELSE tabled

\* close, lines 331-381, with width w on a table of nrSlots slots
RsCloseObject(m, w, nrSlots) ==
  LET moved == IF w = 1 THEN [m EXCEPT !.pos = m.pos - 4] ELSE m
      tabled == WriteOn(ReserveSpace(moved,
                                     w * nrSlots + (IF w = 8 THEN 17 ELSE 0)
                                       + (IF w = 4 THEN 5 ELSE 0)),
                        w * nrSlots)
  IN  CASE w = 4 -> RsAppendLength(RsAppendLength(tabled, 4), 1)
        [] w = 8 ->
             RsAppendLength(RsAppendLength(RsAppendLength(tabled, 8), 8), 1)
        [] OTHER -> tabled

\* closeCompactArrayOrObject, lines 115-139, with the sizes z: the count is
\* written at tos + byteSize - nLen, which is _pos - 8 + bLen
RsCloseCompact(m, z) ==
  LET reserved == IF z.nLen > 8 - z.bLen THEN ReserveSpace(m, z.nLen) ELSE m
  IN  [WriteAt(reserved, m.pos - 8 + z.bLen, z.nLen)
         EXCEPT !.pos = m.pos - 8 + z.nLen + z.bLen]

\* the sizes of the strings, binaries, slices and custom values
PayloadSizes == {0, 1, 8, 126, 127}

\* the call op on an argument of kind arg has written within the buffer
\* followed; rs becomes m, and keeps the call that wrote beyond the capacity
Reserved(m, op, arg) ==
  /\ ~rs.over
  /\ m.pos <= MaxBuf
  /\ rs' = IF m.over THEN [m EXCEPT !.op = op, !.arg = arg] ELSE m
  /\ UNCHANGED <<start, pos, stack, index, keyWritten, options, hsel, last,
                 ghost, back, wIn, wOut, ck>>

RsValue ==
  \E vt \in {"Null", "Bool", "SmallInt", "Illegal", "MinKey", "MaxKey",
             "Double", "External", "String", "Binary", "Array", "Object"},
     size \in PayloadSizes :
    Reserved(RsSetValue(rs, vt, size), "set(Value)", vt)

RsSlice ==
  \E l \in PayloadSizes :
    l > 0 /\ Reserved(RsSetSlice(rs, l), "set(Slice)", "Slice")

RsPair ==
  \E vt \in {"Binary", "String", "Custom"}, size \in PayloadSizes :
    Reserved(RsSetPair(rs, vt, size), "set(ValuePair)", vt)

\* closeArray and close on a compound whose nine header bytes are in the
\* buffer followed
RsArray ==
  \E w \in {1, 2, 4, 8}, n \in 1..MaxN, needIndexTable \in BOOLEAN :
    /\ rs.pos >= 9
    /\ Reserved(RsCloseArray(rs, w, n, needIndexTable), "closeArray", "Array")

RsObject ==
  \E w \in {1, 2, 4, 8}, n \in 2..MaxN :
    /\ rs.pos >= 9
    /\ Reserved(RsCloseObject(rs, w, InitialSlots(n)), "close", "Object")

\* the widths nLen and bLen closeCompactArrayOrObject computes around the
\* thresholds
CompactWidths ==
  {[nLen |-> z.nLen, bLen |-> z.bLen] :
     z \in {CompactSizes(len, n) : len \in CompactLens, n \in CompactCounts}}

RsCompact ==
  \E z \in CompactWidths :
    /\ rs.pos >= 9
    /\ z.bLen < 9
    /\ Reserved(RsCloseCompact(rs, z), "closeCompactArrayOrObject", "Compact")

NextReserve == RsValue \/ RsSlice \/ RsPair \/ RsArray \/ RsObject \/ RsCompact

InitReserve ==
  /\ start = Fresh.start
  /\ pos = Fresh.pos
  /\ stack = Fresh.stack
  /\ index = Fresh.index
  /\ keyWritten = Fresh.keyWritten
  /\ options = Opt(FALSE, FALSE, FALSE, FALSE)
  /\ hsel = 1
  /\ last = NoCall
  /\ ghost = <<>>
  /\ back = 0
  /\ wIn = NoSizes
  /\ wOut = NoWidth
  /\ ck = NoCuckoo
  /\ \E hres \in BOOLEAN :
       rs = [op |-> "none", arg |-> "none", pos |-> 0, cap |-> 0,
             over |-> FALSE, hres |-> hres]

SpecReserve == InitReserve /\ [][NextReserve]_vars

----------------------------------------------------------------------------
(* C16: writes stay inside the reserved capacity.                          *)

\* C16: in every operation each byte written at an index i is preceded by a
\* reserve that guarantees a capacity above i: every set (Value, Slice, and
\* ValuePair for String, Binary and Custom) reserves its head bytes and its
\* payload before it copies, and every close reserves the table and the
\* trailing fields before it writes them
WritesInsideCapacity == ~rs.over

============================================================================
